---- MODULE Spec2Model ----
(***************************************************************************)
(* color_palette_extractor: the service handler of                         *)
(* custom_components/color_palette_extractor/services.py as a state        *)
(* machine.  One invocation of the registered service walks through        *)
(*   schema validation -> async_handle_service -> URL or path acquisition  *)
(*   -> _get_color -> the zip dispatch loop.                               *)
(* The host (Home Assistant), aiohttp and ColorThief are the environment:  *)
(* their answers are chosen nondeterministically from small sets.          *)
(***************************************************************************)
EXTENDS Integers, Sequences, FiniteSets, TLC

(***************************************************************************)
(* Bounds of the model.                                                    *)
(***************************************************************************)
\* how many service invocations exist (Spec runs the first one alone)
NumInvocations == 2
\* longest entity_id list of a request
MaxLights == 3
\* most colours ColorThief.get_palette hands back
MaxColors == 3

Invocations == 1..NumInvocations
Solo == {1}

(***************************************************************************)
(* Keys of the service data.                                               *)
(***************************************************************************)
ATTR_PATH == "color_extract_path"
ATTR_URL == "color_extract_url"
ATTR_ENTITY_ID == "entity_id"
ATTR_RGB_COLOR == "rgb_color"
ATTR_BRIGHTNESS == "brightness"

\* asyncio.timeout(10), in seconds
TIMEOUT == 10

(***************************************************************************)
(* Python values.  entity_id is a list of entity ids or a single str;      *)
(* len() of a list counts its items, len() of a str counts its characters. *)
(***************************************************************************)
PyList(items) == [list |-> TRUE, items |-> items, str |-> ""]
PyStr(s) == [list |-> FALSE, items |-> << >>, str |-> s]
PyLen(v) == IF v.list THEN Len(v.items) ELSE Len(v.str)

\* Optional list of colours: Python None or a list of RGB triples.
None == [none |-> TRUE, list |-> << >>]
Some(l) == [none |-> FALSE, list |-> l]
\* variant: `if colors is not None:`
Truthy_not_none(c) == ~c.none

\* `if colors:` -- None and the empty list are both falsy
Truthy(c) == ~c.none /\ Len(c.list) > 0

Min(a, b) == IF a <= b THEN a ELSE b

\* dict.pop(k) / a dict without key k
Without(d, k) == [j \in DOMAIN d \ {k} |-> d[j]]
\* {**d, k1: v1, k2: v2}
Merge2(d, k1, v1, k2, v2) ==
    [j \in DOMAIN d \cup {k1, k2} |->
        IF j = k2 THEN v2 ELSE IF j = k1 THEN v1 ELSE d[j]]

(***************************************************************************)
(* The environment's universe: entities, image references, host            *)
(* configuration, image contents.                                          *)
(***************************************************************************)
LightPool == << "light.a", "light.b", "light.c", "light.d", "light.e" >>
ENTITY_MATCH_ALL == "all"

\* what a caller may put under entity_id before validation
EntityIdInputs ==
    { PyList(SubSeq(LightPool, 1, n)) : n \in 1..MaxLights }
        \cup { PyList(<< "light.b", "light.a" >>) }
        \cup { PyStr("light.a"), PyStr(ENTITY_MATCH_ALL) }

Absent == "<absent>"
Urls == { "http://allowed/a.jpg", "http://denied/a.jpg", "not a url" }
Paths == { "/config/www/a.jpg", "/etc/a.jpg", "/config/www/missing.jpg" }
WellFormedUrls == { "http://allowed/a.jpg", "http://denied/a.jpg" }
ExistingFiles == { "/config/www/a.jpg", "/etc/a.jpg" }

\* hass.config.allowlist_external_urls / allowlist_external_dirs at start-up
ConfiguredUrls == { "http://allowed/a.jpg" }
ConfiguredPaths == { "/config/www/a.jpg", "/config/www/missing.jpg" }

PassThroughs == { << >>, [k \in {ATTR_BRIGHTNESS} |-> 128] }

\* what the bytes of an image source can be
Contents == { "image", "garbage" }
Durations == { 1, TIMEOUT + 1 }
Statuses == { 200, 404, 500 }

\* the palette ColorThief finds in a decodable image, most dominant first
ColorPool ==
    << <<10, 20, 30>>, <<40, 50, 60>>, <<70, 80, 90>>,
       <<100, 110, 120>>, <<130, 140, 150>> >>

\* raw service data: entity_id, at most one url, at most one path, extras
MakeData(e, u, p, extra) ==
    [k \in {ATTR_ENTITY_ID}
            \cup (IF u = Absent THEN {} ELSE {ATTR_URL})
            \cup (IF p = Absent THEN {} ELSE {ATTR_PATH})
            \cup DOMAIN extra |->
        IF k = ATTR_ENTITY_ID THEN e
        ELSE IF k = ATTR_URL THEN u
        ELSE IF k = ATTR_PATH THEN p
        ELSE extra[k]]

Requests ==
    { MakeData(e, u, p, x) :
        e \in EntityIdInputs, u \in Urls \cup {Absent},
        p \in Paths \cup {Absent}, x \in PassThroughs }

(***************************************************************************)
(* SERVICE_SCHEMA                                                          *)
(***************************************************************************)
\* cv.has_at_least_one_key(ATTR_URL, ATTR_PATH)
has_at_least_one_key(data) == ATTR_URL \in DOMAIN data \/ ATTR_PATH \in DOMAIN data

\* variant: the two keys not put in one exclusion group
ExclusiveGroupOk_ungrouped(data) == TRUE

\* vol.Exclusive(ATTR_PATH, g) / vol.Exclusive(ATTR_URL, g): one group, one key
ExclusiveGroupOk(data) == ~(ATTR_URL \in DOMAIN data /\ ATTR_PATH \in DOMAIN data)

\* cv.isfile on the path, cv.url on the URL
ValuesOk(data) ==
    /\ ATTR_PATH \in DOMAIN data => data[ATTR_PATH] \in ExistingFiles
    /\ ATTR_URL \in DOMAIN data => data[ATTR_URL] \in WellFormedUrls

SchemaAccepts(data) ==
    /\ has_at_least_one_key(data)
    /\ ExclusiveGroupOk(data)
    /\ ValuesOk(data)

\* cv.make_entity_service_schema: an entity id given as a str becomes a
\* one-element list, except the match-all keyword, which stays a str
NormalizeEntityId(e) ==
    IF e.list \/ e.str = ENTITY_MATCH_ALL THEN e ELSE PyList(<< e.str >>)

SchemaOutput(data) ==
    [k \in DOMAIN data |->
        IF k = ATTR_ENTITY_ID THEN NormalizeEntityId(data[k]) ELSE data[k]]

(***************************************************************************)
(* State.  Every variable but the two allowlists is indexed by invocation. *)
(***************************************************************************)
VARIABLES
    allowlist_external_urls,   \* host configuration
    allowlist_external_dirs,   \* host configuration
    pc,                \* where the invocation stands
    raw_data,          \* the data the caller sent
    service_data,      \* dict(service_call.data), later without the image key
    number_of_lights,  \* len(service_data[ATTR_ENTITY_ID])
    image_type,        \* "URL" / "file path"
    image_reference,   \* the popped url or path
    content,           \* bytes of the buffered response body
    colors,            \* result of the extraction
    lights,            \* the list the dispatch loop iterates
    idx,               \* position of the zip iterator
    errors,            \* _LOGGER.error records
    trace,             \* calls made to the host, aiohttp and ColorThief
    exc                \* exception that left the handler, or "none"

vars == << allowlist_external_urls, allowlist_external_dirs, pc, raw_data,
           service_data, number_of_lights, image_type, image_reference,
           content, colors, lights, idx, errors, trace, exc >>

hostVars == << allowlist_external_urls, allowlist_external_dirs >>

\* one entry of trace: the operation, the reference it is about, whether it
\* succeeded, a number (colour count, HTTP status, loop position), the
\* seconds it took, the data of a service call
Event(op, ref, ok, n, secs, data) ==
    [op |-> op, ref |-> ref, ok |-> ok, n |-> n, secs |-> secs, data |-> data]

\* placeholders: an event without call data, an invocation without request
NoData == [k \in {ATTR_ENTITY_ID} |-> ""]
NoRequest == [k \in {ATTR_ENTITY_ID} |-> PyStr("")]

Init ==
    /\ allowlist_external_urls = ConfiguredUrls
    /\ allowlist_external_dirs = ConfiguredPaths
    /\ pc = [i \in Invocations |-> "idle"]
    /\ raw_data = [i \in Invocations |-> NoRequest]
    /\ service_data = [i \in Invocations |-> NoRequest]
    /\ number_of_lights = [i \in Invocations |-> 0]
    /\ image_type = [i \in Invocations |-> ""]
    /\ image_reference = [i \in Invocations |-> ""]
    /\ content = [i \in Invocations |-> ""]
    /\ colors = [i \in Invocations |-> None]
    /\ lights = [i \in Invocations |-> << >>]
    /\ idx = [i \in Invocations |-> 0]
    /\ errors = [i \in Invocations |-> << >>]
    /\ trace = [i \in Invocations |-> << >>]
    /\ exc = [i \in Invocations |-> "none"]

\* the host predicates the component queries
is_allowed_external_url(url) == url \in allowlist_external_urls
is_allowed_path(path) == path \in allowlist_external_dirs

\* variant: the name is a module-level global, one for all invocations
AssignLocal_global(f, i, v) == [j \in DOMAIN f |-> v]

\* assignment of v to a local variable of invocation i
AssignLocal(f, i, v) == [f EXCEPT ![i] = v]

\* variant: the message goes out below the error level
Log_dropped(i, msg) == errors' = errors

\* _LOGGER.error(msg)
Log(i, msg) == errors' = [errors EXCEPT ![i] = Append(@, msg)]
Record(i, e) == trace' = [trace EXCEPT ![i] = Append(@, e)]
Goto(i, l) == pc' = [pc EXCEPT ![i] = l]

(***************************************************************************)
(* hass.services.async_register(DOMAIN, SERVICE_TURN_ON,                   *)
(*     async_handle_service, schema=SERVICE_SCHEMA): the host validates    *)
(* the data and runs the handler on the validated data only.               *)
(***************************************************************************)
ServiceCallFrom(i, requests) ==
    /\ pc[i] = "idle"
    /\ \E data \in requests :
        /\ raw_data' = [raw_data EXCEPT ![i] = data]
        /\ IF SchemaAccepts(data)
           THEN /\ service_data' = [service_data EXCEPT ![i] = SchemaOutput(data)]
                /\ Goto(i, "handler")
           ELSE /\ Goto(i, "rejected")
                /\ UNCHANGED service_data
    /\ UNCHANGED << hostVars, number_of_lights, image_type, image_reference,
                    content, colors, lights, idx, errors, trace, exc >>

ServiceCall(i) == ServiceCallFrom(i, Requests)

(***************************************************************************)
(* async_handle_service, entry: copy the data, count the lights, pick the  *)
(* variant by the key that is present.                                     *)
(***************************************************************************)
HandlerEntry(i) ==
    /\ pc[i] = "handler"
    /\ number_of_lights' =
           [number_of_lights EXCEPT ![i] = PyLen(service_data[i][ATTR_ENTITY_ID])]
    /\ IF ATTR_URL \in DOMAIN service_data[i]
       THEN /\ image_type' = [image_type EXCEPT ![i] = "URL"]
            /\ image_reference' =
                   [image_reference EXCEPT ![i] = service_data[i][ATTR_URL]]
            /\ service_data' =
                   [service_data EXCEPT ![i] = Without(@, ATTR_URL)]
            /\ Goto(i, "url_allow")
            /\ UNCHANGED exc
       ELSE IF ATTR_PATH \in DOMAIN service_data[i]
       THEN /\ image_type' = [image_type EXCEPT ![i] = "file path"]
            /\ image_reference' =
                   [image_reference EXCEPT ![i] = service_data[i][ATTR_PATH]]
            /\ service_data' =
                   [service_data EXCEPT ![i] = Without(@, ATTR_PATH)]
            /\ Goto(i, "path_allow")
            /\ UNCHANGED exc
       ELSE \* neither branch binds colors: `if colors:` fails
            /\ exc' = [exc EXCEPT ![i] = "UnboundLocalError"]
            /\ Goto(i, "raised")
            /\ UNCHANGED << image_type, image_reference, service_data >>
    /\ UNCHANGED << hostVars, raw_data, content, colors, lights, idx,
                    errors, trace >>

(***************************************************************************)
(* The except clauses.                                                     *)
(***************************************************************************)
\* except (TimeoutError, aiohttp.ClientError) around session.get
GetCatches(e) == e \in { "TimeoutError", "ClientError" }

\* variant: a handler whose except clause names another exception
HandlerCatches_other(e) == e = "ValueError"

\* except UnidentifiedImageError around the extraction calls
HandlerCatches(e) == e = "UnidentifiedImageError"

\* an exception e reaches the try block of async_handle_service
RaiseInTry(i, e) ==
    IF HandlerCatches(e)
    THEN /\ Log(i, "bad_image")
         /\ Goto(i, "done")
         /\ UNCHANGED exc
    ELSE /\ exc' = [exc EXCEPT ![i] = e]
         /\ Goto(i, "raised")
         /\ UNCHANGED errors

(***************************************************************************)
(* _get_color: ColorThief(file_handler) decodes the image, then one        *)
(* dominant colour (light_count == 1) or a palette is asked for.           *)
(***************************************************************************)
Decodable(body) == body = "image"

\* light_count == 1 selects get_color, anything else get_palette
SingleColor(light_count) == light_count = 1

\* the library call _get_color makes for light_count lights
ExtractorCall(light_count) ==
    IF SingleColor(light_count)
    THEN Event("get_color", "", TRUE, 1, 0, NoData)
    ELSE Event("get_palette", "", TRUE, light_count, 0, NoData)

\* its answer, k being the number of colours the palette call gives
ExtractorResult(light_count, k) ==
    IF SingleColor(light_count)
    THEN << ColorPool[1] >>
    ELSE SubSeq(ColorPool, 1, k)

\* _get_color on a source with bytes `body`, after the events `before`
GetColor(i, before, body) ==
    IF Decodable(body)
    THEN \E k \in 0..MaxColors :
            /\ trace' = [trace EXCEPT ![i] =
                   @ \o before
                     \o << Event("ColorThief", image_reference[i], TRUE, 0, 0, NoData),
                           ExtractorCall(number_of_lights[i]) >>]
            /\ colors' = AssignLocal(colors, i,
                   Some(ExtractorResult(number_of_lights[i], k)))
            /\ Goto(i, "after_try")
            /\ UNCHANGED << errors, exc >>
    ELSE /\ trace' = [trace EXCEPT ![i] =
                @ \o before
                  \o << Event("ColorThief", image_reference[i], FALSE, 0, 0, NoData) >>]
         /\ RaiseInTry(i, "UnidentifiedImageError")
         /\ UNCHANGED colors

(***************************************************************************)
(* _async_extract_color_from_url                                           *)
(***************************************************************************)
\* variant: the answer of the allowlist is logged but not acted on
UrlRefused_never(allowed) == FALSE

\* `if not hass.config.is_allowed_external_url(url)`
UrlRefused(allowed) == ~allowed

UrlAllowCheck(i) ==
    /\ pc[i] = "url_allow"
    /\ LET url == image_reference[i]
           allowed == is_allowed_external_url(url)
       IN  /\ Record(i, Event("is_allowed_external_url", url, allowed, 0, 0, NoData))
           /\ IF UrlRefused(allowed)
              THEN /\ Log(i, "url_not_allowed")
                   /\ colors' = [colors EXCEPT ![i] = None]
                   /\ Goto(i, "after_try")
              ELSE /\ Goto(i, "url_get")
                   /\ UNCHANGED << errors, colors >>
    /\ UNCHANGED << hostVars, raw_data, service_data, number_of_lights,
                    image_type, image_reference, content, lights, idx, exc >>

\* variant: no deadline on the awaited call
TimedOut_never(secs) == FALSE

\* asyncio.timeout(10) expires before an awaited call taking secs ends
TimedOut(secs) == secs > TIMEOUT

\* variant: a client session that raises for 4xx and 5xx responses
ResponseRaises_for_status(status) == status >= 400

\* session.get(url) hands the response back whatever its status
ResponseRaises(status) == FALSE

\* async with asyncio.timeout(10): response = await session.get(url)
UrlGet(i) ==
    /\ pc[i] = "url_get"
    /\ \E secs \in Durations, fails \in BOOLEAN, status \in Statuses :
        LET \* a response arrived, in time and without a client error
            answered == ~TimedOut(secs) /\ ~fails
            raised == IF TimedOut(secs) THEN "TimeoutError"
                      ELSE IF fails \/ ResponseRaises(status) THEN "ClientError"
                      ELSE "none"
        IN  /\ Record(i, Event("get", image_reference[i], answered,
                               status, secs, NoData))
            /\ IF raised = "none"
               THEN /\ Goto(i, "url_read")
                    /\ UNCHANGED << errors, colors, exc >>
               ELSE IF GetCatches(raised)
               THEN /\ Log(i, "http_error")
                    /\ colors' = [colors EXCEPT ![i] = None]
                    /\ Goto(i, "after_try")
                    /\ UNCHANGED exc
               ELSE /\ RaiseInTry(i, raised)
                    /\ UNCHANGED colors
    /\ UNCHANGED << hostVars, raw_data, service_data, number_of_lights,
                    image_type, image_reference, content, lights, idx >>

\* content = await response.content.read(): outside the try and the timeout
UrlRead(i) ==
    /\ pc[i] = "url_read"
    /\ \E secs \in Durations, fails \in BOOLEAN, body \in Contents :
        /\ Record(i, Event("read", image_reference[i], ~fails, 0, secs, NoData))
        /\ IF fails
           THEN /\ RaiseInTry(i, "ClientError")
                /\ UNCHANGED content
           ELSE /\ content' = [content EXCEPT ![i] = body]
                /\ Goto(i, "url_extract")
                /\ UNCHANGED << errors, exc >>
    /\ UNCHANGED << hostVars, raw_data, service_data, number_of_lights,
                    image_type, image_reference, colors, lights, idx >>

\* with io.BytesIO(content) as _file: return _get_color(_file, number_of_lights)
UrlExtract(i) ==
    /\ pc[i] = "url_extract"
    /\ GetColor(i, << >>, content[i])
    /\ UNCHANGED << hostVars, raw_data, service_data, number_of_lights,
                    image_type, image_reference, content, lights, idx >>

(***************************************************************************)
(* _extract_color_from_path, run by hass.async_add_executor_job in a       *)
(* worker thread.                                                          *)
(***************************************************************************)
\* variant: the answer of the allowlist is logged but not acted on
PathRefused_never(allowed) == FALSE

\* `if not hass.config.is_allowed_path(file_path)`
PathRefused(allowed) == ~allowed

PathAllowCheck(i) ==
    /\ pc[i] = "path_allow"
    /\ LET path == image_reference[i]
           allowed == is_allowed_path(path)
       IN  /\ Record(i, Event("is_allowed_path", path, allowed, 0, 0, NoData))
           /\ IF PathRefused(allowed)
              THEN /\ Log(i, "path_not_allowed")
                   /\ colors' = [colors EXCEPT ![i] = None]
                   /\ Goto(i, "after_try")
              ELSE /\ Goto(i, "path_extract")
                   /\ UNCHANGED << errors, colors >>
    /\ UNCHANGED << hostVars, raw_data, service_data, number_of_lights,
                    image_type, image_reference, content, lights, idx, exc >>

\* _file = _get_file(file_path); return _get_color(_file, number_of_lights):
\* ColorThief opens the file at that path and decodes what it reads
PathExtract(i) ==
    /\ pc[i] = "path_extract"
    /\ \E body \in Contents :
        GetColor(i, << Event("open", image_reference[i], TRUE, 0, 0, NoData) >>, body)
    /\ UNCHANGED << hostVars, raw_data, service_data, number_of_lights,
                    image_type, image_reference, content, lights, idx >>

(***************************************************************************)
(* async_handle_service after the try block: `if colors:` and the list of  *)
(* lights.                                                                 *)
(***************************************************************************)
\* lights = entity_id if it is a list, else [entity_id]
LightsOf(e) == IF e.list THEN e.items ELSE << e.str >>

AfterTry(i) ==
    /\ pc[i] = "after_try"
    /\ IF Truthy(colors[i])
       THEN /\ lights' = [lights EXCEPT ![i] = LightsOf(service_data[i][ATTR_ENTITY_ID])]
            /\ idx' = [idx EXCEPT ![i] = 1]
            /\ Goto(i, "dispatch")
       ELSE /\ Goto(i, "done")
            /\ UNCHANGED << lights, idx >>
    /\ UNCHANGED << hostVars, raw_data, service_data, number_of_lights,
                    image_type, image_reference, content, colors, errors,
                    trace, exc >>

(***************************************************************************)
(* The dispatch loop: for entity_id, color in zip(lights, colors)          *)
(***************************************************************************)
\* zip stops at the shorter of its two arguments
ZipLen(ls, cs) == Min(Len(ls), Len(cs))

\* data = {**service_data, ATTR_ENTITY_ID: entity_id, ATTR_RGB_COLOR: color}
CallData(sd, entity_id, color) ==
    Merge2(sd, ATTR_ENTITY_ID, entity_id, ATTR_RGB_COLOR, color)

\* Whether the name `hass` of `await hass.services.async_call(...)` is bound
\* where async_handle_service evaluates it: the function has the single
\* parameter service_call, assigns no local `hass`, and the module binds no
\* global of that name, so the lookup raises NameError.
HassBound == FALSE

Dispatch(i) ==
    /\ pc[i] \in { "dispatch", "await_call" }
    /\ IF pc[i] = "dispatch"
       THEN IF idx[i] > ZipLen(lights[i], colors[i].list)
            THEN \* zip is exhausted: the handler returns
                 /\ Goto(i, "done")
                 /\ UNCHANGED << idx, trace, exc >>
            ELSE IF ~HassBound
            THEN /\ exc' = [exc EXCEPT ![i] = "NameError"]
                 /\ Goto(i, "raised")
                 /\ UNCHANGED << idx, trace >>
            ELSE \* hass.services.async_call(light, turn_on, data, blocking=True)
                 /\ Record(i, Event("turn_on", lights[i][idx[i]], TRUE, idx[i], 0,
                                    CallData(service_data[i], lights[i][idx[i]],
                                             colors[i].list[idx[i]])))
                 /\ Goto(i, "await_call")
                 /\ UNCHANGED << idx, exc >>
       ELSE \* the awaited call completes, or fails and the failure propagates
            \E fails \in BOOLEAN :
                /\ Record(i, Event("turn_on_done", lights[i][idx[i]], ~fails,
                                   idx[i], 0, NoData))
                /\ IF fails
                   THEN /\ exc' = [exc EXCEPT ![i] = "HomeAssistantError"]
                        /\ Goto(i, "raised")
                        /\ UNCHANGED idx
                   ELSE /\ idx' = [idx EXCEPT ![i] = @ + 1]
                        /\ Goto(i, "dispatch")
                        /\ UNCHANGED exc
    /\ UNCHANGED << hostVars, raw_data, service_data, number_of_lights,
                    image_type, image_reference, content, colors, lights,
                    errors >>

(***************************************************************************)
(* One invocation, and the specification of a single service call.         *)
(***************************************************************************)
Step(i) ==
    \/ ServiceCall(i)
    \/ HandlerEntry(i)
    \/ UrlAllowCheck(i)
    \/ UrlGet(i)
    \/ UrlRead(i)
    \/ UrlExtract(i)
    \/ PathAllowCheck(i)
    \/ PathExtract(i)
    \/ AfterTry(i)
    \/ Dispatch(i)

Next == \E i \in Solo : Step(i)

Spec == Init /\ [][Next]_vars

(***************************************************************************)
(* Concurrent service calls: the event loop interleaves the invocations at *)
(* their await points, and the executor job of the path variant runs in a  *)
(* worker thread beside them.                                              *)
(***************************************************************************)
\* the requests of the concurrent invocations: path requests for all, and
\* a URL request too for every other one
ConcPathRequests ==
    { MakeData(PyList(<< "light.a" >>), Absent, "/config/www/a.jpg", << >>),
      MakeData(PyList(<< "light.b", "light.a" >>), Absent, "/config/www/a.jpg",
               [k \in {ATTR_BRIGHTNESS} |-> 128]),
      MakeData(PyList(<< "light.b", "light.a" >>), Absent, "/etc/a.jpg", << >>) }

ConcUrlRequests ==
    { MakeData(PyList(<< "light.c" >>), "http://allowed/a.jpg",
               Absent, [k \in {ATTR_BRIGHTNESS} |-> 128]) }

ConcRequests(i) ==
    IF i % 2 = 1 THEN ConcUrlRequests \cup ConcPathRequests ELSE ConcPathRequests

ConcServiceCall(i) == ServiceCallFrom(i, ConcRequests(i))

ConcStep(i) ==
    \/ ConcServiceCall(i)
    \/ HandlerEntry(i)
    \/ UrlAllowCheck(i)
    \/ UrlGet(i)
    \/ UrlRead(i)
    \/ UrlExtract(i)
    \/ PathAllowCheck(i)
    \/ PathExtract(i)
    \/ AfterTry(i)
    \/ Dispatch(i)

NextConc == \E i \in Invocations : ConcStep(i)

SpecConc == Init /\ [][NextConc]_vars

(***************************************************************************)
(* Vocabulary of the properties.                                           *)
(***************************************************************************)
\* the events of invocation i with operation op, in order
Ops(i, op) == SelectSeq(trace[i], LAMBDA e : e.op = op)
\* the light turn-on calls issued by invocation i
TurnOns(i) == Ops(i, "turn_on")
\* issue and completion events of the turn-on calls, in order
TurnOnEvents(i) ==
    SelectSeq(trace[i], LAMBDA e : e.op \in { "turn_on", "turn_on_done" })
Finished(i) == pc[i] \in { "done", "raised" }
\* the target entities of the request, in input order
Targets(i) == LightsOf(raw_data[i][ATTR_ENTITY_ID])
Extracted(i) ==
    \E k \in 1..Len(trace[i]) : trace[i][k].op \in { "get_color", "get_palette" }
DecodeFailed(i) ==
    \E k \in 1..Len(trace[i]) : trace[i][k].op = "ColorThief" /\ ~trace[i][k].ok

(***************************************************************************)
(* C1: once the handler is through with a request whose extraction gave a  *)
(* non-empty list of K colours for N target entities (and no light call    *)
(* failed downstream), exactly min(N, K) turn-on calls were issued, the    *)
(* k-th carrying the k-th entity id and the k-th colour.                   *)
(***************************************************************************)
C1_PositionalDispatch ==
    \A i \in Invocations :
        (Finished(i) /\ Truthy(colors[i]) /\ exc[i] # "HomeAssistantError") =>
            /\ Len(TurnOns(i)) = Min(Len(Targets(i)), Len(colors[i].list))
            /\ \A k \in 1..Len(TurnOns(i)) :
                /\ TurnOns(i)[k].data[ATTR_ENTITY_ID] = Targets(i)[k]
                /\ TurnOns(i)[k].data[ATTR_RGB_COLOR] = colors[i].list[k]

(***************************************************************************)
(* C2: a GET for a URL is preceded, in the same invocation, by an          *)
(* allowlist query on that URL that answered true; an invocation whose URL *)
(* the host refuses performs no GET.                                       *)
(***************************************************************************)
C2_NoFetchUnlessAllowed ==
    \A i \in Invocations :
        /\ \A k \in 1..Len(trace[i]) :
            trace[i][k].op = "get" =>
                \E j \in 1..(k - 1) :
                    /\ trace[i][j].op = "is_allowed_external_url"
                    /\ trace[i][j].ref = trace[i][k].ref
                    /\ trace[i][j].ok
        /\ (image_type[i] = "URL" /\ ~is_allowed_external_url(image_reference[i]))
               => Len(Ops(i, "get")) = 0

\* a refused URL request that ran to its end
C2_Witness ==
    \E i \in Invocations :
        /\ pc[i] = "done"
        /\ image_type[i] = "URL"
        /\ ~is_allowed_external_url(image_reference[i])
        /\ Len(Ops(i, "is_allowed_external_url")) = 1

(***************************************************************************)
(* C3: an open of a path is preceded, in the same invocation, by an        *)
(* allowlist query on that path that answered true; an invocation whose    *)
(* path the host refuses opens no file.                                    *)
(***************************************************************************)
C3_NoOpenUnlessAllowed ==
    \A i \in Invocations :
        /\ \A k \in 1..Len(trace[i]) :
            trace[i][k].op = "open" =>
                \E j \in 1..(k - 1) :
                    /\ trace[i][j].op = "is_allowed_path"
                    /\ trace[i][j].ref = trace[i][k].ref
                    /\ trace[i][j].ok
        /\ (image_type[i] = "file path" /\ ~is_allowed_path(image_reference[i]))
               => Len(Ops(i, "open")) = 0

\* a refused path request that ran to its end
C3_Witness ==
    \E i \in Invocations :
        /\ pc[i] = "done"
        /\ image_type[i] = "file path"
        /\ ~is_allowed_path(image_reference[i])
        /\ Len(Ops(i, "is_allowed_path")) = 1

C5_DecodeFailureAborts ==
    \A i \in Invocations :
        /\ DecodeFailed(i) =>
            /\ pc[i] = "done"
            /\ exc[i] = "none"
            /\ errors[i] = << "bad_image" >>
            /\ Len(TurnOns(i)) = 0
            /\ ~Extracted(i)
        /\ pc[i] \in { "dispatch", "await_call" } =>
            /\ Extracted(i)
            /\ ~DecodeFailed(i)

\* an undecodable file of the path variant
C5_Witness ==
    \E i \in Invocations :
        /\ DecodeFailed(i)
        /\ image_type[i] = "file path"
        /\ Len(Ops(i, "open")) = 1

(***************************************************************************)
(* C6: a URL request whose fetch has a phase (awaiting the response, or    *)
(* reading the body) longer than 10 seconds is aborted: nothing is         *)
(* extracted, the dispatch loop is not entered, no exception is raised.    *)
(***************************************************************************)
C6_SlowFetchAborts ==
    \A i \in Invocations :
        (\E k \in 1..Len(trace[i]) :
            /\ trace[i][k].op \in { "get", "read" }
            /\ trace[i][k].secs > TIMEOUT)
        => /\ pc[i] \in { "after_try", "done" }
           /\ colors[i] = None
           /\ exc[i] = "none"
           /\ Len(TurnOns(i)) = 0

(***************************************************************************)
(* C7: a URL request with a network failure while acquiring the image      *)
(* (in the GET or in the read of the body) logs one error, has no result,  *)
(* issues no turn-on call and raises nothing to the caller.                *)
(***************************************************************************)
C7_NetworkFailureIsNoResult ==
    \A i \in Invocations :
        (\E k \in 1..Len(trace[i]) :
            /\ trace[i][k].op \in { "get", "read" }
            /\ ~trace[i][k].ok)
        => /\ pc[i] \in { "after_try", "done" }
           /\ colors[i] = None
           /\ errors[i] = << "http_error" >>
           /\ exc[i] = "none"
           /\ Len(TurnOns(i)) = 0

(***************************************************************************)
(* C8: the extractor is asked for as many colours as the request has       *)
(* target entities: the dominant-colour call for one target, whether given *)
(* as a str or as a one-element list, and a palette of N for N > 1.        *)
(***************************************************************************)
C8_RequestedEqualsTargets ==
    \A i \in Invocations :
        \A k \in 1..Len(trace[i]) :
            LET e == trace[i][k]
                N == Len(Targets(i))
            IN  e.op \in { "get_color", "get_palette" } =>
                    IF N = 1 THEN e.op = "get_color" /\ e.n = 1
                    ELSE e.op = "get_palette" /\ e.n = N

(***************************************************************************)
(* C9: a call is accepted exactly when one of color_extract_url and        *)
(* color_extract_path is present (and valid); for a rejected call the      *)
(* handler never runs: nothing is queried, fetched, opened, extracted,     *)
(* logged or dispatched.                                                   *)
(***************************************************************************)
ExactlyOneReference(d) == (ATTR_URL \in DOMAIN d) # (ATTR_PATH \in DOMAIN d)

C9_ExactlyOneReference ==
    \A i \in Invocations :
        pc[i] # "idle" =>
            /\ pc[i] # "rejected" => ExactlyOneReference(raw_data[i])
            /\ ~ExactlyOneReference(raw_data[i]) => pc[i] = "rejected"
            /\ pc[i] = "rejected" =>
                /\ trace[i] = << >>
                /\ errors[i] = << >>
                /\ service_data[i] = NoRequest
                /\ number_of_lights[i] = 0
                /\ exc[i] = "none"

\* a call carrying both keys was rejected
C9_Witness ==
    \E i \in Invocations :
        /\ pc[i] = "rejected"
        /\ ATTR_URL \in DOMAIN raw_data[i]
        /\ ATTR_PATH \in DOMAIN raw_data[i]
        /\ raw_data[i][ATTR_URL] \in WellFormedUrls
        /\ raw_data[i][ATTR_PATH] \in ExistingFiles

(***************************************************************************)
(* C10: for a validated request the handler returns normally on every      *)
(* path; the only exception that leaves it is the one of a failed          *)
(* downstream light turn-on call.                                          *)
(***************************************************************************)
C10_OnlyDownstreamErrorsEscape ==
    \A i \in Invocations :
        /\ exc[i] \in { "none", "HomeAssistantError" }
        /\ pc[i] = "raised" => exc[i] = "HomeAssistantError"

(***************************************************************************)
(* C11: a request whose URL or path the host allowlist refuses logs the    *)
(* refusal (and nothing else), has no result, never reaches acquisition,   *)
(* extraction or the dispatch loop, issues no turn-on call and returns     *)
(* normally, no exception reaching the caller.                             *)
(***************************************************************************)
Refused(i) ==
    \E k \in 1..Len(trace[i]) :
        /\ trace[i][k].op \in { "is_allowed_external_url", "is_allowed_path" }
        /\ ~trace[i][k].ok

C11_RefusalIsSilentAbort ==
    \A i \in Invocations :
        Refused(i) =>
            /\ pc[i] \in { "after_try", "done" }
            /\ errors[i] = << (IF image_type[i] = "URL" THEN "url_not_allowed"
                                                        ELSE "path_not_allowed") >>
            /\ colors[i] = None
            /\ exc[i] = "none"
            /\ Len(trace[i]) = 1
            /\ Len(TurnOns(i)) = 0

\* a refused request whose handler has returned, the refusal in the log
C11_Witness ==
    \E i \in Invocations :
        /\ Refused(i)
        /\ pc[i] = "done"
        /\ Len(errors[i]) = 1
        /\ exc[i] = "none"

(***************************************************************************)
(* C12: a request that gets through the dispatch loop (no call failing)    *)
(* has issued turn-on calls, and every call issued carries the request's   *)
(* pass-through parameters with their values, entity_id set to the one     *)
(* paired entity, rgb_color set to the paired colour, and neither          *)
(* color_extract_url nor color_extract_path.                               *)
(***************************************************************************)
\* the pass-through part of the data the caller sent
PassThroughOf(d) == Without(Without(Without(d, ATTR_ENTITY_ID), ATTR_URL), ATTR_PATH)

StageFailed(e) ==
    /\ e.op \in { "is_allowed_external_url", "is_allowed_path", "get", "read",
                  "ColorThief" }
    /\ ~e.ok \/ (e.op = "get" /\ e.secs > TIMEOUT)

C15_NoRetryNoLaterStage ==
    \A i \in Invocations :
        /\ Len(Ops(i, "is_allowed_external_url")) + Len(Ops(i, "is_allowed_path")) <= 1
        /\ Len(Ops(i, "get")) <= 1
        /\ Len(Ops(i, "read")) <= 1
        /\ Len(Ops(i, "open")) <= 1
        /\ Len(Ops(i, "ColorThief")) <= 1
        /\ Len(Ops(i, "get_color")) + Len(Ops(i, "get_palette")) <= 1
        /\ \A k \in 1..Len(trace[i]) :
            StageFailed(trace[i][k]) =>
                /\ k = Len(trace[i])
                /\ pc[i] \in { "after_try", "done", "raised" }
                /\ ~Truthy(colors[i])

\* a GET that ran into the timeout, the handler through
C15_Witness ==
    \E i \in Invocations :
        /\ Finished(i)
        /\ Len(trace[i]) = 2
        /\ trace[i][2].op = "get"
        /\ trace[i][2].secs > TIMEOUT

(***************************************************************************)
(* C16: when the extraction returns an empty list, the handler issues no   *)
(* turn-on call, logs no error and returns normally; the dispatch loop is  *)
(* entered only with a non-empty list of colours.                          *)
(***************************************************************************)
EmptyResult(i) == Extracted(i) /\ ~colors[i].none /\ Len(colors[i].list) = 0

C16_EmptyResultNoDispatch ==
    \A i \in Invocations :
        /\ EmptyResult(i) =>
            /\ pc[i] \in { "after_try", "done" }
            /\ errors[i] = << >>
            /\ exc[i] = "none"
            /\ Len(TurnOns(i)) = 0
        /\ pc[i] \in { "dispatch", "await_call" } => Len(colors[i].list) > 0
        /\ Len(TurnOns(i)) > 0 => Len(colors[i].list) > 0

\* an empty palette, the handler returned
C16_Witness ==
    \E i \in Invocations :
        /\ EmptyResult(i)
        /\ pc[i] = "done"
        /\ Len(Ops(i, "get_palette")) = 1

(***************************************************************************)
(* C17: in the URL variant a response that arrives in time and without a   *)
(* client error is read and handed to the extractor whatever its HTTP      *)
(* status, and no acquisition error is logged.                             *)
(***************************************************************************)
C17_StatusNotInspected ==
    \A i \in Invocations :
        \A k \in 1..Len(trace[i]) :
            (trace[i][k].op = "get" /\ trace[i][k].ok) =>
                /\ \A m \in 1..Len(errors[i]) : errors[i][m] # "http_error"
                /\ IF k = Len(trace[i])
                   THEN pc[i] = "url_read"
                   ELSE /\ trace[i][k + 1].op = "read"
                        /\ trace[i][k + 1].ok =>
                            IF k + 1 = Len(trace[i])
                            THEN pc[i] = "url_extract" /\ content[i] \in Contents
                            ELSE trace[i][k + 2].op = "ColorThief"

\* a 4xx or 5xx response whose body reached the extractor
C17_Witness ==
    \E i \in Invocations :
        /\ Len(trace[i]) >= 4
        /\ trace[i][2].op = "get"
        /\ trace[i][2].n >= 400
        /\ trace[i][4].op = "ColorThief"

(***************************************************************************)
(* C14: under any interleaving of concurrent invocations, each invocation  *)
(* issues the turn-on calls it issues when run alone -- its state moves    *)
(* only by its own steps, its colours come from its own extraction for its *)
(* own number of lights, and its calls are the ones the dispatch loop      *)
(* makes from its own data -- and no step modifies the host allowlists.    *)
(***************************************************************************)
\* everything invocation i owns
LocalState(i) ==
    << pc[i], raw_data[i], service_data[i], number_of_lights[i], image_type[i],
       image_reference[i], content[i], colors[i], lights[i], idx[i], errors[i],
       trace[i], exc[i] >>

\* the calls the loop of an invocation on its own issues up to position p
\* from the service data sd, the lights ls and the colours cs
SoloCalls(sd, ls, cs, p) ==
    IF HassBound
    THEN [k \in 1..Min(p, ZipLen(ls, cs)) |-> CallData(sd, ls[k], cs[k])]
    ELSE << >>

\* the loop position up to which invocation i has issued its calls
IssuedUpTo(i) == IF pc[i] = "dispatch" THEN idx[i] - 1 ELSE idx[i]

OwnDataOnly(i) ==
    /\ ~colors[i].none =>
        /\ Len(Ops(i, "get_color")) + Len(Ops(i, "get_palette")) = 1
        /\ \A k \in 1..Len(trace[i]) :
            trace[i][k].op \in { "get_color", "get_palette" } =>
                /\ trace[i][k].n = PyLen(service_data[i][ATTR_ENTITY_ID])
                /\ colors[i].list =
                       ExtractorResult(trace[i][k].n, Len(colors[i].list))
    /\ \A k \in 1..Len(trace[i]) :
        trace[i][k].op \in { "is_allowed_external_url", "is_allowed_path", "get",
                             "read", "open", "ColorThief" } =>
            /\ trace[i][k].ref = image_reference[i]
            /\ image_reference[i] \in
                   { raw_data[i][key] : key \in DOMAIN raw_data[i] \cap { ATTR_URL, ATTR_PATH } }
    /\ Len(TurnOns(i)) = Len(SoloCalls(service_data[i], lights[i], colors[i].list, IssuedUpTo(i)))
    /\ \A k \in 1..Len(TurnOns(i)) :
        TurnOns(i)[k].data =
            SoloCalls(service_data[i], lights[i], colors[i].list, IssuedUpTo(i))[k]

C14_InvocationsIndependent ==
    /\ [](\A i \in Invocations : OwnDataOnly(i))
    /\ [][ /\ hostVars' = hostVars
           /\ \A i \in Invocations : \A j \in Invocations \ {i} :
                LocalState(i)' # LocalState(i) => LocalState(j)' = LocalState(j)
         ]_vars

\* a URL invocation suspended at its await while the worker thread of a path
\* invocation stands between its allowlist query and its extraction
C14_Witness ==
    /\ pc[1] = "url_read"
    /\ pc[2] = "path_extract"
    /\ Len(trace[1]) = 2
    /\ Len(trace[2]) = 1

====
